---- MODULE Spec2Model ----
(***************************************************************************)
(* The two-tier cache of src/src/utils/retry.ts (class CacheManager): a    *)
(* memory tier (memoryCache, currentMemorySize) in front of a file tier    *)
(* (one entry file per key and one metadata.json per namespace directory). *)
(*                                                                         *)
(* Paths are relative to cacheDir.  Strings are TLA+ strings, so key       *)
(* derivation, path building and prefix tests are computed on the text.    *)
(* Sizes are the byte length of the serialized payload; the capacity of    *)
(* the memory tier is scaled down so that a few entries fill it.           *)
(***************************************************************************)
EXTENDS Integers, Sequences, FiniteSets, TLC

(***************************************************************************)
(* Bounds of the model.                                                    *)
(***************************************************************************)
\* the clock (Date.now()) runs over 0..MaxTime
MaxTime == 2
\* a behaviour holds at most MaxOps cache operations
MaxOps == 3
\* withRetry is called with attempts in 0..MaxAttempts
MaxAttempts == 3
\* a behaviour holds at most MaxWrites logger calls without data
MaxWrites == 7
\* and at most MaxDataWrites logger calls with a data object
MaxDataWrites == 2
\* the data objects logged nest their secret up to MaxNesting objects deep
MaxNesting == 11
\* the number of calls of set followed statement by statement
MaxCalls == 3

(***************************************************************************)
(* Program constants.                                                      *)
(***************************************************************************)
\* retry.ts:112  100 * 1024 * 1024 in the source; scaled to 24 bytes here so
\* that two payloads of 12 bytes fill it exactly and a third entry, or a
\* 13-byte one, exceeds it (the 100% and 80% thresholds are kept as ratios
\* of this value)
maxMemorySize == 24
\* retry.ts:295  24 * 60 * 60 * 1000
DefaultTtl == 86400000

\* retry.ts:133  the sub-directories ensureCacheDirectory provisions
subdirs == <<"grind75", "leetcode", "companies">>

\* logger.ts:17  10 * 1024 * 1024 in the source; scaled to the length of one
\* short INFO line, so that a file of one such line does not exceed it and a
\* file of one longer line, or of two lines, does
maxLogSize == 36
\* logger.ts:18
maxLogFiles == 5
\* logger.ts:69  depth > 10
SanitizeDepthLimit == 10
\* logger.ts:80
sensitiveKeys == <<"password", "token", "session", "key", "secret", "sessionId",
                   "notionToken", "connectionString">>
\* src/src/config/index.ts:52  LOG_LEVEL || 'info'
logLevel == "INFO"

(***************************************************************************)
(* Inputs.                                                                 *)
(***************************************************************************)
\* two provisioned namespaces and one that is not provisioned and is a
\* string prefix of a provisioned one
Namespaces == {"grind75", "leetcode", "leet"}
Identifiers == {"", "a"}

\* a JavaScript value as a tagged tree; "self" is a reference to the object
\* that is being walked (a cycle), "NaN" a number JSON cannot represent
JNum(n) == [t |-> "num", n |-> n, keys |-> <<>>, kids |-> <<>>]
JNaN == [t |-> "NaN", n |-> 0, keys |-> <<>>, kids |-> <<>>]
JNull == [t |-> "null", n |-> 0, keys |-> <<>>, kids |-> <<>>]
JSelf == [t |-> "self", n |-> 0, keys |-> <<>>, kids |-> <<>>]
JArr(kids) == [t |-> "arr", n |-> 0, keys |-> <<>>, kids |-> kids]
JObj(keys, kids) == [t |-> "obj", n |-> 0, keys |-> keys, kids |-> kids]
\* a string value: its text is the one element of keys
JStr(text) == [t |-> "str", n |-> 0, keys |-> <<text>>, kids |-> <<>>]

\* {value: 42}
DValue == JObj(<<"value">>, <<JNum(42)>>)
\* [1, {a: [2]}]
DNested == JArr(<<JNum(1), JObj(<<"a">>, <<JArr(<<JNum(2)>>)>>)>>)
\* {value: NaN}: not JSON-representable
DNaN == JObj(<<"value">>, <<JNaN>>)
\* const o = {}; o.self = o
DCyclic == JObj(<<"self">>, <<JSelf>>)

\* DNaN (what JSON.stringify does not preserve) stays out of the inputs: the
\* payloads the callers store are JSON documents fetched over HTTP
DataInputs == {DValue, DNested, DCyclic}

\* the JSON documents the payloads above serialize to
JsonValues == {DValue, DNested, JObj(<<"value">>, <<JNull>>), JNull}

\* the optional identifier of invalidate: undefined, "" or "a"
NoIdentifier == [has |-> FALSE, id |-> ""]
IdentifierArgs == {NoIdentifier} \cup {[has |-> TRUE, id |-> id] : id \in Identifiers}

\* options of set: {} or {ttl: n}
NoOptions == [hasTtl |-> FALSE, ttl |-> 0]
WithTtl(n) == [hasTtl |-> TRUE, ttl |-> n]
OptionInputs == {NoOptions, WithTtl(0), WithTtl(1)}

\* the file-system call of an operation that fails ("none": no call fails)
SetFaults == {"none", "writeEntry", "readMeta", "writeMeta"}
GetFaults == {"none", "readEntry", "readMeta", "writeMeta", "unlink"}
InvalidateFaults == {"none", "unlink", "readMeta", "writeMeta", "rm", "mkdir"}
CleanupFaults == {"none", "readMeta", "writeMeta", "unlink"}
StatusFaults == {"none", "readMeta"}

\* the optional namespace of getCacheStatus: undefined or a name
NoNamespace == [has |-> FALSE, ns |-> ""]

\* the inputs of the specification with file-system failures
FaultNamespaces == {"leetcode", "leet"}
FaultIdentifiers == {"a"}
FaultIdentifierArgs == {[has |-> FALSE, id |-> ""]} \cup {[has |-> TRUE, id |-> id] : id \in FaultIdentifiers}
FaultDataInputs == {DValue, DCyclic}

\* the inputs of the specification with restarts and status reads
StatusNamespaceArgs == {NoNamespace} \cup {[has |-> TRUE, ns |-> ns] : ns \in FaultNamespaces}
StatusDataInputs == {DValue, DNested}
StatusOptionInputs == {NoOptions, WithTtl(1)}

\* the inputs of the calls of set followed statement by statement: the
\* processes of the tool that share one cache directory, the namespace they
\* write to and the identifiers they use
Instances == {1, 2}
SharedNamespace == "leetcode"
CallIdentifiers == {"", "a", "b"}

\* the options of withRetry and what fn resolves to or rejects with
AttemptInputs == 0..MaxAttempts
DelayInputs == {250, 1000}
ValueInputs == {"questions", "favorites"}
ErrorInputs == {"ECONNRESET", "ETIMEDOUT"}

\* the calls of the logger: levels, messages, days and data objects
LogLevels == {"INFO", "ERROR"}
DataLogLevels == {"DEBUG", "WARN"}
LogMessages == {"a"}
Dates == <<"2024-01-01", "2024-01-02">>

\* {password: "hunter2"}
Secret == JObj(<<"password">>, <<JStr("hunter2")>>)
\* {a: {a: ... leaf}} with n objects around leaf
RECURSIVE Nest(_, _)
Nest(n, leaf) == IF n = 0 THEN leaf ELSE JObj(<<"a">>, <<Nest(n - 1, leaf)>>)

LogDataInputs ==
  {Nest(n, Secret) : n \in 0..MaxNesting}
  \cup {JObj(<<"user", "apiKey">>, <<JStr("bob"), JStr("k1")>>),
       JObj(<<"NotionToken", "count">>, <<JStr("t1"), JNum(1)>>),
       JObj(<<"session">>, <<JObj(<<"id">>, <<JNum(7)>>)>>),
       JArr(<<Secret, JNum(1)>>),
       JObj(<<"self", "secret">>, <<JSelf, JStr("s1")>>)}

(***************************************************************************)
(* Pure functions.                                                         *)
(***************************************************************************)
RECURSIVE HasCycle(_)
HasCycle(v) ==
  \/ v.t = "self"
  \/ \E i \in 1..Len(v.kids) : HasCycle(v.kids[i])

RECURSIVE IsJsonRepresentable(_)
IsJsonRepresentable(v) ==
  /\ v.t \notin {"self", "NaN"}
  /\ \A i \in 1..Len(v.kids) : IsJsonRepresentable(v.kids[i])

RECURSIVE Join(_)
Join(texts) ==
  IF Len(texts) = 0 THEN ""
  ELSE IF Len(texts) = 1 THEN texts[1]
  ELSE texts[1] \o "," \o Join(Tail(texts))

\* JSON.stringify on a cycle-free value (it throws on a cycle: JSONthrows)
RECURSIVE JSONstringify(_)
JSONstringify(v) ==
  CASE v.t = "num" -> ToString(v.n)
    [] v.t = "NaN" -> "null"
    [] v.t = "null" -> "null"
    [] v.t = "str" -> "\"" \o v.keys[1] \o "\""
    [] v.t = "arr" -> "[" \o Join([i \in 1..Len(v.kids) |-> JSONstringify(v.kids[i])]) \o "]"
    [] v.t = "obj" ->
         "{" \o Join([i \in 1..Len(v.kids) |->
                        "\"" \o v.keys[i] \o "\":" \o JSONstringify(v.kids[i])]) \o "}"

JSONthrows(v) == HasCycle(v)

\* JSON.parse on a text JSON.stringify produced
JSONparse(text) == CHOOSE v \in JsonValues : JSONstringify(v) = text

\* retry.ts:151-178
RECURSIVE safeStringify(_)
safeStringify(obj) ==
  CASE obj.t \in {"num", "NaN", "null"} -> JSONstringify(obj)
    [] obj.t = "self" -> "\"[Circular]\""
    [] obj.t = "arr" -> "[" \o Join([i \in 1..Len(obj.kids) |-> safeStringify(obj.kids[i])]) \o "]"
    [] obj.t = "obj" ->
         "{" \o Join([i \in 1..Len(obj.kids) |->
                        "\"" \o obj.keys[i] \o "\":" \o safeStringify(obj.kids[i])]) \o "}"

\* crypto.createHash('md5').update(text).digest('hex') on the texts the model hashes
md5(text) ==
  CASE text = "" -> "d41d8cd98f00b204e9800998ecf8427e"
    [] text = "a" -> "0cc175b9c0f1b6a831c399e269772661"
    [] text = "b" -> "92eb5ffee6ae2fec3ad71c777531578f"
    [] text = "{\"value\":42}" -> "0ddc4b47c822a930dfbb69febdcfe476"
    [] text = "[1,{\"a\":[2]}]" -> "04f9cf3c02e44ecdcde5e6ce65148c44"
    [] text = "{\"value\":null}" -> "a860dd9545dcc18e29903b7e08993790"
    [] text = "{\"self\":\"[Circular]\"}" -> "7ed1539dc7afaee8ba0eca9c4e9c16b0"

\* retry.ts:142-145
generateKey(namespace, identifier) == namespace \o "_" \o md5(identifier)

\* retry.ts:147-149
generateFingerprint(data) == md5(safeStringify(data))

\* retry.ts:180-182
getFilePath(key, namespace) == namespace \o "/" \o key \o ".json"

\* retry.ts:184-186
getMetadataPath(namespace) == namespace \o "/metadata.json"

\* String.prototype.startsWith
startsWith(s, prefix) ==
  /\ Len(prefix) <= Len(s)
  /\ SubSeq(s, 1, Len(prefix)) = prefix

\* Buffer.byteLength(content, 'utf8'): the payload text; the envelope of the
\* entry (timestamp, ttl, size, key) is left out of the count
byteLength(content) == Len(content.data)

\* faulty variant: the boundary instant counts as expired
isExpiredAtBoundary(timestamp, ttl, dateNow) == dateNow - timestamp >= ttl

\* retry.ts:210-212, with Date.now() as a parameter
isExpired(timestamp, ttl, dateNow) == dateNow - timestamp > ttl

(***************************************************************************)
(* State.                                                                  *)
(***************************************************************************)
VARIABLES
  now,                \* Date.now()
  memoryCache,        \* retry.ts:111  the Map, as its entries in insertion order
  currentMemorySize,  \* retry.ts:113
  dirs,               \* the namespace directories that exist under cacheDir
  files,              \* entry files: path -> content, for the paths that exist
  metadataDocs,       \* metadata.json files: path -> (key -> record)
  corrupt,            \* paths of files whose text JSON.parse rejects
  last,               \* the last operation: its arguments, result and log lines
  ops,                \* number of operations so far
  retry,              \* retry.ts:12-55  the run of withRetry: options, loop variable, calls
  logFiles,           \* logger.ts:16  the files of logDir: path -> size and first write
  logged,             \* the last line a logger call handed to writeToFile
  today,              \* the day of the clock the logger reads
  writes,             \* number of logger calls so far
  calls,              \* retry.ts:287-339  the calls of set in flight, statement by statement
  instances           \* retry.ts:111-113  the memory tier of each process of the tool

vars == <<now, memoryCache, currentMemorySize, dirs, files, metadataDocs, corrupt, last, ops,
          retry, logFiles, logged, today, writes, calls, instances>>

\* what the cache does not touch, and what withRetry and the logger do not touch
outsideCache == <<retry, logFiles, logged, today, writes, calls, instances>>
cacheVars == <<now, memoryCache, currentMemorySize, dirs, files, metadataDocs, corrupt, last, ops,
               calls, instances>>

\* the empty Map / object / directory listing
Empty == <<>>

Remove(f, k) == [x \in DOMAIN f \ {k} |-> f[x]]
Put(f, k, v) == (k :> v) @@ f

(***************************************************************************)
(* The memory tier: Map operations and eviction.                           *)
(***************************************************************************)
memHas(mem, key) == \E i \in 1..Len(mem) : mem[i].key = key
memGet(mem, key) == mem[CHOOSE i \in 1..Len(mem) : mem[i].key = key]

\* Map.prototype.set: an existing key keeps its position
memSet(mem, entry) ==
  IF memHas(mem, entry.key)
  THEN [i \in 1..Len(mem) |-> IF mem[i].key = entry.key THEN entry ELSE mem[i]]
  ELSE Append(mem, entry)

\* Map.prototype.delete
memDelete(mem, key) == SelectSeq(mem, LAMBDA e : e.key # key)

memSum(mem) ==
  LET RECURSIVE Sum(_)
      Sum(s) == IF Len(s) = 0 THEN 0 ELSE Head(s).size + Sum(Tail(s))
  IN Sum(mem)

\* Array.prototype.sort with (a, b) => a.timestamp - b.timestamp (stable)
RECURSIVE InsertByTimestamp(_, _)
InsertByTimestamp(sorted, e) ==
  IF Len(sorted) = 0 THEN <<e>>
  ELSE IF Head(sorted).timestamp <= e.timestamp
       THEN <<Head(sorted)>> \o InsertByTimestamp(Tail(sorted), e)
       ELSE <<e>> \o sorted

RECURSIVE SortByTimestamp(_)
SortByTimestamp(entries) ==
  IF Len(entries) = 0 THEN <<>>
  ELSE InsertByTimestamp(SortByTimestamp(SubSeq(entries, 1, Len(entries) - 1)),
                         entries[Len(entries)])

\* faulty variant: the loop stops as soon as the total is back at the capacity
AboveCapacity(size) == size > maxMemorySize

\* retry.ts:219  currentMemorySize > maxMemorySize * 0.8
AboveTarget(size) == 10 * size > 8 * maxMemorySize

\* retry.ts:219-224  the while loop over the sorted entries
RECURSIVE EvictLoop(_, _, _)
EvictLoop(entries, mem, size) ==
  IF AboveTarget(size) /\ Len(entries) > 0
  THEN EvictLoop(Tail(entries), memDelete(mem, Head(entries).key), size - Head(entries).size)
  ELSE [memoryCache |-> mem, currentMemorySize |-> size]

\* faulty variant: an if in place of the while: only the oldest entry goes
evictOldestOnly(mem, size) ==
  IF Len(mem) = 0
  THEN [memoryCache |-> mem, currentMemorySize |-> size]
  ELSE LET oldest == Head(SortByTimestamp(mem))
       IN [memoryCache |-> memDelete(mem, oldest.key),
           currentMemorySize |-> size - oldest.size]

\* faulty variant: no sort: the entries go in the Map's insertion order
evictInsertionOrder(mem, size) == EvictLoop(mem, mem, size)

\* retry.ts:214-225
evictMemoryCache(mem, size) == EvictLoop(SortByTimestamp(mem), mem, size)

\* retry.ts:257-262 and 328-333: insert, add the size, evict when over capacity
Insert(mem, size, entry) ==
  LET mem1 == memSet(mem, entry)
      size1 == size + entry.size
  IN IF size1 > maxMemorySize
     THEN evictMemoryCache(mem1, size1)
     ELSE [memoryCache |-> mem1, currentMemorySize |-> size1]

(***************************************************************************)
(* The metadata document of a namespace.                                   *)
(***************************************************************************)
\* faulty variant: a damaged document still yields the records it held
loadMetadataUnchecked(docs, bad, namespace, fault) ==
  LET metadataPath == getMetadataPath(namespace)
  IN IF metadataPath \in DOMAIN docs /\ fault # "readMeta"
     THEN docs[metadataPath]
     ELSE Empty

\* retry.ts:188-199: {} when the file is missing, unreadable or unparsable
loadMetadata(docs, bad, namespace, fault) ==
  LET metadataPath == getMetadataPath(namespace)
  IN IF metadataPath \in DOMAIN docs /\ fault # "readMeta" /\ metadataPath \notin bad
     THEN docs[metadataPath]
     ELSE Empty

\* fs.writeFileSync(metadataPath, ...) succeeds: the directory exists and the
\* write does not fail
MetadataWritten(namespace, fault) == namespace \in dirs /\ fault # "writeMeta"

\* faulty variant: the write merges the records the file holds into the
\* document it is given
saveMetadataMerging(docs, namespace, metadata, fault) ==
  LET metadataPath == getMetadataPath(namespace)
      held == IF metadataPath \in DOMAIN docs THEN docs[metadataPath] ELSE Empty
  IN IF MetadataWritten(namespace, fault)
     THEN Put(docs, metadataPath, metadata @@ held)
     ELSE docs

\* retry.ts:201-208: a failing write is logged and swallowed
saveMetadata(docs, namespace, metadata, fault) ==
  IF MetadataWritten(namespace, fault)
  THEN Put(docs, getMetadataPath(namespace), metadata)
  ELSE docs

savedCorrupt(bad, namespace, fault) ==
  IF MetadataWritten(namespace, fault) THEN bad \ {getMetadataPath(namespace)} ELSE bad

(***************************************************************************)
(* withRetry  (retry.ts:12-55)                                             *)
(***************************************************************************)
\* no call of withRetry is under way
RetryIdle ==
  [phase |-> "idle", attempts |-> 0, delay |-> 0, exponentialBackoff |-> FALSE,
   attempt |-> 0, outcomes |-> <<>>, onRetry |-> <<>>, waits |-> <<>>,
   result |-> [kind |-> "none", value |-> "", message |-> ""], log |-> {}]

\* what withRetry hands to its caller
Resolved(value) == [kind |-> "value", value |-> value, message |-> ""]
\* retry.ts:38-41  new NetworkError(message, {originalError: lastError})
NetworkError(attempts, lastError) ==
  [kind |-> "NetworkError", value |-> lastError,
   message |-> "Operation failed after " \o ToString(attempts) \o " attempts: " \o lastError]
\* retry.ts:54  throw lastError!
Rethrown(lastError) == [kind |-> "lastError", value |-> lastError, message |-> lastError]

\* faulty variant: the exponent is the attempt, not the attempt less one
waitTimeDoubled(delay, exponentialBackoff, attempt) ==
  IF exponentialBackoff THEN delay * 2^attempt ELSE delay

\* retry.ts:46-48
waitTime(delay, exponentialBackoff, attempt) ==
  IF exponentialBackoff THEN delay * 2^(attempt - 1) ELSE delay

(***************************************************************************)
(* Logger  (src/src/utils/logger.ts)                                       *)
(***************************************************************************)
\* String.prototype.toLowerCase on one character
toLowerChar(c) ==
  CASE c = "A" -> "a" [] c = "B" -> "b" [] c = "C" -> "c" [] c = "D" -> "d"
    [] c = "E" -> "e" [] c = "F" -> "f" [] c = "G" -> "g" [] c = "H" -> "h"
    [] c = "I" -> "i" [] c = "J" -> "j" [] c = "K" -> "k" [] c = "L" -> "l"
    [] c = "M" -> "m" [] c = "N" -> "n" [] c = "O" -> "o" [] c = "P" -> "p"
    [] c = "Q" -> "q" [] c = "R" -> "r" [] c = "S" -> "s" [] c = "T" -> "t"
    [] c = "U" -> "u" [] c = "V" -> "v" [] c = "W" -> "w" [] c = "X" -> "x"
    [] c = "Y" -> "y" [] c = "Z" -> "z"
    [] OTHER -> c

\* String.prototype.toLowerCase
RECURSIVE toLowerCase(_)
toLowerCase(text) ==
  IF Len(text) = 0 THEN ""
  ELSE toLowerChar(SubSeq(text, 1, 1)) \o toLowerCase(SubSeq(text, 2, Len(text)))

\* String.prototype.includes
includes(text, part) ==
  \E i \in 1..(Len(text) - Len(part) + 1) : SubSeq(text, i, i + Len(part) - 1) = part

\* logger.ts:87  sensitiveKeys.some(sensitive => key.toLowerCase().includes(...))
IsSensitive(key) ==
  \E i \in 1..Len(sensitiveKeys) : includes(toLowerCase(key), toLowerCase(sensitiveKeys[i]))

\* logger.ts:67-103  visited holds the objects on the path from the root, so a
\* "self" reference is one of them
RECURSIVE sanitizeData(_, _)
sanitizeData(data, depth) ==
  IF depth > SanitizeDepthLimit \/ data.t \notin {"obj", "arr", "self"} THEN data
  ELSE IF data.t = "self" THEN JStr("[Circular Reference]")
  ELSE [data EXCEPT !.kids =
          [i \in 1..Len(data.kids) |->
             IF data.t = "obj" /\ IsSensitive(data.keys[i])
             THEN JStr("[REDACTED]")
             ELSE IF data.kids[i].t \in {"obj", "arr", "self"}
                  THEN sanitizeData(data.kids[i], depth + 1)
                  ELSE data.kids[i]]]

\* new Date().toISOString() on the day date
toISOString(date) == date \o "T00:00:00.000Z"

\* logger.ts:55-65 without data, as writeToFile calls it
formatMessage(level, message, date) ==
  "[" \o toISOString(date) \o "] [" \o level \o "] " \o message

\* logger.ts:105-108  relative to logDir
getLogFilePath(level, date) == toLowerCase(level) \o "-" \o date \o ".log"

\* path.extname and path.basename(p, ext) of a file name
extname(name) ==
  LET dots == {i \in 1..Len(name) : SubSeq(name, i, i) = "."}
  IN IF dots = {} THEN ""
     ELSE SubSeq(name, CHOOSE i \in dots : \A j \in dots : j <= i, Len(name))
basename(name, ext) == SubSeq(name, 1, Len(name) - Len(ext))

\* logger.ts:138-139, 151  `${basename}.${i}${ext}`
RotatedPath(logFile, i) ==
  basename(logFile, extname(logFile)) \o "." \o ToString(i) \o extname(logFile)

\* logger.ts:137-148  the loop from i down to 1
RECURSIVE RotateExisting(_, _, _)
RotateExisting(i, logDir, logFile) ==
  IF i <= 0 THEN logDir
  ELSE LET oldFile == RotatedPath(logFile, i)
           newFile == RotatedPath(logFile, i + 1)
           moved == IF oldFile \notin DOMAIN logDir THEN logDir
                    ELSE IF i = maxLogFiles - 1 THEN Remove(logDir, oldFile)
                    ELSE Put(Remove(logDir, oldFile), newFile, logDir[oldFile])
       IN RotateExisting(i - 1, moved, logFile)

\* logger.ts:130-156
rotateLogFile(logDir, logFile) ==
  LET rotated == RotateExisting(maxLogFiles - 1, logDir, logFile)
  IN Put(Remove(rotated, logFile), RotatedPath(logFile, 1), rotated[logFile])

\* faulty variant: a file at the limit is rotated too
NeedsRotationAtLimit(size) == size >= maxLogSize

\* logger.ts:118  stats.size > this.maxLogSize
NeedsRotation(size) == size > maxLogSize

\* logger.ts:110-128  the n-th write appends text to the file of level and date
writeToFile(logDir, level, message, date, n) ==
  LET logFile == getLogFilePath(level, date)
      logMessage == formatMessage(level, message, date) \o "\n"
      rotated == IF logFile \in DOMAIN logDir /\ NeedsRotation(logDir[logFile].size)
                 THEN rotateLogFile(logDir, logFile)
                 ELSE logDir
  IN IF logFile \in DOMAIN rotated
     THEN [rotated EXCEPT ![logFile].size = @ + Len(logMessage)]
     ELSE Put(rotated, logFile, [size |-> Len(logMessage), born |-> n])

\* logger.ts:6-11  enum LogLevel
LevelRank(level) ==
  CASE level = "DEBUG" -> 0 [] level = "INFO" -> 1 [] level = "WARN" -> 2 [] level = "ERROR" -> 3

\* the logger before its first call
NothingLogged == [level |-> "", message |-> "", hasData |-> FALSE, data |-> JNull,
                   raised |-> FALSE]

(***************************************************************************)
(* Initial state: the constructor has run on an empty cacheDir.            *)
(***************************************************************************)
\* what the caller of the last operation observed: the call and its time,
\* the value or rejection it got and the lines the operation logged; options
\* holds the options argument of a set
Observed(op, namespace, hasIdentifier, identifier, acceptExpired, data, ret, raised, log) ==
  [op |-> op, at |-> now, namespace |-> namespace, hasIdentifier |-> hasIdentifier,
   identifier |-> identifier, acceptExpired |-> acceptExpired, data |-> data,
   ret |-> ret, raised |-> raised, log |-> log, options |-> NoOptions]

\* a call of set that has not been made
NotCalled ==
  [pc |-> "idle", instance |-> 0, identifier |-> "", key |-> "", timestamp |-> 0,
   metadata |-> Empty, saved |-> 0]

\* retry.ts:115-140
Init ==
  /\ now = 0
  /\ memoryCache = <<>>
  /\ currentMemorySize = 0
  /\ dirs = {subdirs[i] : i \in 1..Len(subdirs)}
  /\ files = Empty
  /\ metadataDocs = Empty
  /\ corrupt = {}
  /\ last = Observed("none", "", FALSE, "", FALSE, JNull, JNull, FALSE, {})
  /\ ops = 0
  /\ retry = RetryIdle
  /\ logFiles = Empty
  /\ logged = NothingLogged
  /\ today = 1
  /\ writes = 0
  /\ calls = [c \in 1..MaxCalls |-> NotCalled]
  /\ instances = [p \in Instances |-> [memoryCache |-> <<>>, currentMemorySize |-> 0]]

\* time passes between two operations
Tick ==
  /\ now < MaxTime
  /\ now' = now + 1
  /\ UNCHANGED <<memoryCache, currentMemorySize, dirs, files, metadataDocs, corrupt, last, ops>>
  /\ UNCHANGED outsideCache

(***************************************************************************)
(* set  (retry.ts:287-339)                                                 *)
(***************************************************************************)
\* retry.ts:295  options.ttl || 24 * 60 * 60 * 1000
EffectiveTtl(options) ==
  IF options.hasTtl /\ options.ttl # 0 THEN options.ttl ELSE DefaultTtl

\* faulty variant: the catch block rethrows
SetRaisesOnWriteFailure(data, entryWriteFailed, metadataWriteFailed) ==
  JSONthrows(data) \/ entryWriteFailed \/ metadataWriteFailed

\* retry.ts:306 is outside the try block: JSON.stringify(entry) throwing rejects
\* the promise; whatever fails at 310-335 is caught at 336
SetRaises(data, entryWriteFailed, metadataWriteFailed) == JSONthrows(data)

\* retry.ts:313  fs.writeFileSync(filePath, content) succeeds: the namespace
\* directory exists and the write does not fail
EntryWritten(namespace, fault) == namespace \in dirs /\ fault # "writeEntry"

Set(namespace, identifier, data, options, fault) ==
  LET key == generateKey(namespace, identifier)
      ttl == EffectiveTtl(options)
      fingerprint == generateFingerprint(data)
      written == EntryWritten(namespace, fault)
      seen(raised, log) ==
        [Observed("set", namespace, TRUE, identifier, FALSE, data, JNull, raised, log)
           EXCEPT !.options = options]
  IN /\ ops < MaxOps
     /\ ops' = ops + 1
     /\ UNCHANGED <<now, dirs>>
     /\ UNCHANGED outsideCache
     /\ IF JSONthrows(data)
        THEN /\ last' = seen(SetRaises(data, FALSE, FALSE), {})
             /\ UNCHANGED <<memoryCache, currentMemorySize, files, metadataDocs, corrupt>>
        ELSE LET content == [data |-> JSONstringify(data), timestamp |-> now, ttl |-> ttl,
                             size |-> 0, key |-> key]
                 size == byteLength(content)
                 entry == [key |-> key, data |-> data, timestamp |-> now, ttl |-> ttl,
                           size |-> size]
                 filePath == getFilePath(key, namespace)
                 metadata == loadMetadata(metadataDocs, corrupt, namespace, fault)
                 record == [key |-> key, timestamp |-> now, ttl |-> ttl, size |-> size,
                            fingerprint |-> fingerprint, accessed |-> now]
                 inserted == Insert(memoryCache, currentMemorySize, entry)
             IN IF written
                THEN /\ files' = Put(files, filePath, content)
                     /\ metadataDocs' =
                          saveMetadata(metadataDocs, namespace, Put(metadata, key, record), fault)
                     /\ corrupt' = savedCorrupt(corrupt, namespace, fault) \ {filePath}
                     /\ memoryCache' = inserted.memoryCache
                     /\ currentMemorySize' = inserted.currentMemorySize
                     /\ last' = seen(SetRaises(data, FALSE, ~MetadataWritten(namespace, fault)),
                                     {"Cache stored"} \cup
                                     (IF ~MetadataWritten(namespace, fault)
                                      THEN {"Failed to save cache metadata"} ELSE {}))
                ELSE /\ last' = seen(SetRaises(data, TRUE, FALSE), {"Failed to store cache"})
                     /\ UNCHANGED <<memoryCache, currentMemorySize, files, metadataDocs, corrupt>>

(***************************************************************************)
(* get  (retry.ts:227-285)                                                 *)
(***************************************************************************)
\* faulty variant: the acceptExpired option is ignored
ServableFreshOnly(timestamp, ttl, acceptExpired, dateNow) ==
  ~isExpired(timestamp, ttl, dateNow)

\* retry.ts:238 and 254  !this.isExpired(...) || options?.acceptExpired
Servable(timestamp, ttl, acceptExpired, dateNow) ==
  ~isExpired(timestamp, ttl, dateNow) \/ acceptExpired

\* faulty variant: the access time is left as the set wrote it
AccessTimeKept(metadata, key, dateNow) == metadata

\* retry.ts:267  metadata[key].accessed = now
UpdateAccessTime(metadata, key, dateNow) == [metadata EXCEPT ![key].accessed = dateNow]

Get(namespace, identifier, acceptExpired, fault) ==
  LET key == generateKey(namespace, identifier)
      filePath == getFilePath(key, namespace)
      inMemory == memHas(memoryCache, key)
      memoryEntry == memGet(memoryCache, key)
      memoryHit ==
        inMemory /\ Servable(memoryEntry.timestamp, memoryEntry.ttl, acceptExpired, now)
      \* retry.ts:242-243  an expired memory entry is dropped and its size subtracted
      mem1 == IF inMemory THEN memDelete(memoryCache, key) ELSE memoryCache
      size1 == IF inMemory THEN currentMemorySize - memoryEntry.size ELSE currentMemorySize
      seen(ret, log) ==
        Observed("get", namespace, TRUE, identifier, acceptExpired, JNull, ret, FALSE, log)
  IN /\ ops < MaxOps
     /\ ops' = ops + 1
     /\ UNCHANGED <<now, dirs>>
     /\ UNCHANGED outsideCache
     /\ IF memoryHit
        THEN /\ last' = seen(memoryEntry.data, {"Cache hit (memory)"})
             /\ UNCHANGED <<memoryCache, currentMemorySize, files, metadataDocs, corrupt>>
        ELSE IF filePath \notin DOMAIN files
        THEN /\ memoryCache' = mem1
             /\ currentMemorySize' = size1
             /\ last' = seen(JNull, {"Cache miss"})
             /\ UNCHANGED <<files, metadataDocs, corrupt>>
        ELSE IF fault = "readEntry" \/ filePath \in corrupt
        THEN \* retry.ts:278-280  readFileSync or JSON.parse threw
             /\ memoryCache' = mem1
             /\ currentMemorySize' = size1
             /\ last' = seen(JNull, {"Failed to read cache file", "Cache miss"})
             /\ UNCHANGED <<files, metadataDocs, corrupt>>
        ELSE LET content == files[filePath]
                 entry == [key |-> content.key, data |-> JSONparse(content.data),
                           timestamp |-> content.timestamp, ttl |-> content.ttl,
                           size |-> content.size]
             IN IF Servable(entry.timestamp, entry.ttl, acceptExpired, now)
                THEN LET size == byteLength(content)
                         inserted == Insert(mem1, size1, [entry EXCEPT !.size = size])
                         metadata == loadMetadata(metadataDocs, corrupt, namespace, fault)
                     IN /\ memoryCache' = inserted.memoryCache
                        /\ currentMemorySize' = inserted.currentMemorySize
                        /\ IF key \in DOMAIN metadata
                           THEN /\ metadataDocs' =
                                     saveMetadata(metadataDocs, namespace,
                                                  UpdateAccessTime(metadata, key, now), fault)
                                /\ corrupt' = savedCorrupt(corrupt, namespace, fault)
                           ELSE UNCHANGED <<metadataDocs, corrupt>>
                        /\ last' = seen(entry.data, {"Cache hit (file)"})
                        /\ UNCHANGED files
                ELSE /\ memoryCache' = mem1
                     /\ currentMemorySize' = size1
                     /\ UNCHANGED <<metadataDocs, corrupt>>
                     /\ IF fault = "unlink"
                        THEN /\ last' = seen(JNull, {"Failed to read cache file", "Cache miss"})
                             /\ UNCHANGED files
                        ELSE /\ files' = Remove(files, filePath)
                             /\ last' = seen(JNull, {"Cache expired and removed", "Cache miss"})

(***************************************************************************)
(* invalidate  (retry.ts:341-378)                                          *)
(***************************************************************************)
\* faulty variant: "for (const key of ...)": the whole key is tested and deleted
PurgedWholeKey(key) == key

\* retry.ts:370  "for (const [key] of Array.from(this.memoryCache.keys()))":
\* the array pattern destructures each key string, binding key to its first
\* character
PurgedKey(key) == SubSeq(key, 1, 1)

\* retry.ts:370-374
PurgeNamespace(mem, namespace) ==
  LET deleted == {PurgedKey(mem[i].key) : i \in {j \in 1..Len(mem) :
                                                   startsWith(PurgedKey(mem[j].key), namespace)}}
  IN SelectSeq(mem, LAMBDA e : e.key \notin deleted)

\* fs.rmSync(namespacePath, {recursive: true}): what lies under the directory
Under(namespace, paths) == {q \in paths : startsWith(q, namespace \o "/")}

\* retry.ts:342  if (identifier): undefined and "" both take the else branch
Truthy(hasIdentifier, identifier) == hasIdentifier /\ identifier # ""

Invalidate(namespace, hasIdentifier, identifier, fault) ==
  LET seen(raised, log) ==
        Observed("invalidate", namespace, hasIdentifier, identifier, FALSE, JNull, JNull,
                 raised, log)
  IN /\ ops < MaxOps
     /\ ops' = ops + 1
     /\ UNCHANGED <<now, currentMemorySize>>
     /\ UNCHANGED outsideCache
     /\ IF Truthy(hasIdentifier, identifier)
        THEN LET key == generateKey(namespace, identifier)
                 filePath == getFilePath(key, namespace)
                 metadata == loadMetadata(metadataDocs, corrupt, namespace, fault)
             IN /\ memoryCache' = memDelete(memoryCache, key)
                /\ UNCHANGED dirs
                /\ IF filePath \in DOMAIN files /\ fault = "unlink"
                   THEN \* retry.ts:352  unlinkSync throws, nothing catches it
                        /\ last' = seen(TRUE, {})
                        /\ UNCHANGED <<files, metadataDocs, corrupt>>
                   ELSE /\ files' = Remove(files, filePath)
                        /\ metadataDocs' =
                             saveMetadata(metadataDocs, namespace, Remove(metadata, key), fault)
                        /\ corrupt' = savedCorrupt(corrupt, namespace, fault) \ {filePath}
                        /\ last' = seen(FALSE, {"Cache invalidated"})
        ELSE IF namespace \notin dirs
        THEN /\ memoryCache' = PurgeNamespace(memoryCache, namespace)
             /\ last' = seen(FALSE, {"Cache namespace cleared"})
             /\ UNCHANGED <<dirs, files, metadataDocs, corrupt>>
        ELSE IF fault = "rm"
        THEN \* retry.ts:365  rmSync throws, nothing catches it
             /\ last' = seen(TRUE, {})
             /\ UNCHANGED <<memoryCache, dirs, files, metadataDocs, corrupt>>
        ELSE /\ files' = [q \in DOMAIN files \ Under(namespace, DOMAIN files) |-> files[q]]
             /\ metadataDocs' =
                  [q \in DOMAIN metadataDocs \ Under(namespace, DOMAIN metadataDocs) |->
                     metadataDocs[q]]
             /\ corrupt' = corrupt \ Under(namespace, corrupt)
             /\ IF fault = "mkdir"
                THEN \* retry.ts:366  mkdirSync throws after the directory is gone
                     /\ dirs' = dirs \ {namespace}
                     /\ last' = seen(TRUE, {})
                     /\ UNCHANGED memoryCache
                ELSE /\ dirs' = dirs
                     /\ memoryCache' = PurgeNamespace(memoryCache, namespace)
                     /\ last' = seen(FALSE, {"Cache namespace cleared"})

(***************************************************************************)
(* cleanup  (retry.ts:410-435)                                             *)
(***************************************************************************)
\* faulty variant: the metadata document is rewritten, the entry files of the
\* expired records stay
CleanupNamespaceKeepingFiles(st, namespace, fault) ==
  LET metadata == loadMetadata(st.metadataDocs, st.corrupt, namespace, fault)
      expired == {k \in DOMAIN metadata :
                    isExpired(metadata[k].timestamp, metadata[k].ttl, now)}
      updated == [k \in DOMAIN metadata \ expired |-> metadata[k]]
  IN IF expired = {}
     THEN st
     ELSE [files |-> st.files,
           metadataDocs |-> saveMetadata(st.metadataDocs, namespace, updated, fault),
           corrupt |-> savedCorrupt(st.corrupt, namespace, fault),
           raised |-> FALSE,
           log |-> st.log \cup {"Cache cleanup completed"}]

\* retry.ts:414-433  the body of the loop for one namespace, on the files and
\* documents st holds
CleanupNamespace(st, namespace, fault) ==
  LET metadata == loadMetadata(st.metadataDocs, st.corrupt, namespace, fault)
      expired == {k \in DOMAIN metadata :
                    isExpired(metadata[k].timestamp, metadata[k].ttl, now)}
      unlinked == {getFilePath(k, namespace) : k \in expired} \cap DOMAIN st.files
      updated == [k \in DOMAIN metadata \ expired |-> metadata[k]]
  IN IF unlinked # {} /\ fault = "unlink"
     THEN [st EXCEPT !.raised = TRUE]
     ELSE IF expired = {}
     THEN st
     ELSE [files |-> [q \in DOMAIN st.files \ unlinked |-> st.files[q]],
           metadataDocs |-> saveMetadata(st.metadataDocs, namespace, updated, fault),
           corrupt |-> savedCorrupt(st.corrupt, namespace, fault) \ unlinked,
           raised |-> FALSE,
           log |-> st.log \cup {"Cache cleanup completed"}]

\* retry.ts:413  for (const namespace of namespaces), from the i-th on
RECURSIVE CleanupFrom(_, _, _)
CleanupFrom(i, st, fault) ==
  IF i > Len(subdirs) \/ st.raised
  THEN st
  ELSE CleanupFrom(i + 1, CleanupNamespace(st, subdirs[i], fault), fault)

Cleanup(fault) ==
  LET st == CleanupFrom(1, [files |-> files, metadataDocs |-> metadataDocs,
                            corrupt |-> corrupt, raised |-> FALSE, log |-> {}], fault)
  IN /\ ops < MaxOps
     /\ ops' = ops + 1
     /\ files' = st.files
     /\ metadataDocs' = st.metadataDocs
     /\ corrupt' = st.corrupt
     /\ last' = Observed("cleanup", "", FALSE, "", FALSE, JNull, JNull, st.raised, st.log)
     /\ UNCHANGED <<now, memoryCache, currentMemorySize, dirs>>
     /\ UNCHANGED outsideCache

(***************************************************************************)
(* getCacheStatus  (retry.ts:380-408)                                      *)
(***************************************************************************)
\* entries.reduce((sum, entry) => sum + entry.size, 0) over Object.values
RECURSIVE totalSize(_)
totalSize(metadata) ==
  IF DOMAIN metadata = {} THEN 0
  ELSE LET k == CHOOSE x \in DOMAIN metadata : TRUE
       IN metadata[k].size + totalSize(Remove(metadata, k))

\* Math.min(...) and Math.max(...) of a non-empty list of numbers
MathMin(numbers) == CHOOSE n \in numbers : \A m \in numbers : n <= m
MathMax(numbers) == CHOOSE n \in numbers : \A m \in numbers : n >= m

\* faulty variant: validEntries counts every record
fileCacheOfCountingAll(metadata, dateNow) ==
  LET timestamps == {metadata[k].timestamp : k \in DOMAIN metadata}
  IN [totalEntries |-> Cardinality(DOMAIN metadata),
      validEntries |-> Cardinality(DOMAIN metadata),
      totalSize |-> totalSize(metadata),
      oldestEntry |-> IF DOMAIN metadata # {} THEN JNum(MathMin(timestamps)) ELSE JNull,
      newestEntry |-> IF DOMAIN metadata # {} THEN JNum(MathMax(timestamps)) ELSE JNull]

\* retry.ts:393-404  status.fileCache[ns] from the metadata document of ns
fileCacheOf(metadata, dateNow) ==
  LET validEntries == {k \in DOMAIN metadata :
                         ~isExpired(metadata[k].timestamp, metadata[k].ttl, dateNow)}
      timestamps == {metadata[k].timestamp : k \in DOMAIN metadata}
  IN [totalEntries |-> Cardinality(DOMAIN metadata),
      validEntries |-> Cardinality(validEntries),
      totalSize |-> totalSize(metadata),
      oldestEntry |-> IF DOMAIN metadata # {} THEN JNum(MathMin(timestamps)) ELSE JNull,
      newestEntry |-> IF DOMAIN metadata # {} THEN JNum(MathMax(timestamps)) ELSE JNull]

\* retry.ts:390  namespace ? [namespace] : ['grind75', 'leetcode', 'companies']
StatusScope(hasNamespace, namespace) ==
  IF Truthy(hasNamespace, namespace) THEN {namespace} ELSE {subdirs[i] : i \in 1..Len(subdirs)}

GetCacheStatus(hasNamespace, namespace, fault) ==
  LET status ==
        [memoryCache |-> [entries |-> Len(memoryCache), size |-> currentMemorySize,
                          maxSize |-> maxMemorySize],
         fileCache |-> [ns \in StatusScope(hasNamespace, namespace) |->
                          fileCacheOf(loadMetadata(metadataDocs, corrupt, ns, fault), now)]]
  IN /\ ops < MaxOps
     /\ ops' = ops + 1
     /\ last' = Observed("getCacheStatus", namespace, hasNamespace, "", FALSE, JNull, status,
                         FALSE, {})
     /\ UNCHANGED <<now, memoryCache, currentMemorySize, dirs, files, metadataDocs, corrupt>>
     /\ UNCHANGED outsideCache

(***************************************************************************)
(* Process restart: the constructor runs again  (retry.ts:111-140)         *)
(***************************************************************************)
\* retry.ts:127-140  the missing sub-directories are created, the existing
\* ones and what they hold are left alone
ensureCacheDirectory(existing) == existing \cup {subdirs[i] : i \in 1..Len(subdirs)}

\* faulty variant: the new process starts on an emptied cache directory
RestartOnEmptiedDirectory ==
  /\ memoryCache' = <<>>
  /\ currentMemorySize' = 0
  /\ dirs' = ensureCacheDirectory({})
  /\ files' = Empty
  /\ metadataDocs' = Empty
  /\ corrupt' = {}
  /\ UNCHANGED <<now, last, ops>>
  /\ UNCHANGED outsideCache

\* the process exits and a new one constructs the CacheManager: the fields
\* start from their initializers (retry.ts:111, 113), the files stay
Restart ==
  /\ memoryCache' = <<>>
  /\ currentMemorySize' = 0
  /\ dirs' = ensureCacheDirectory(dirs)
  /\ UNCHANGED <<now, files, metadataDocs, corrupt, last, ops>>
  /\ UNCHANGED outsideCache

(***************************************************************************)
(* withRetry: the call, each settlement of fn and each timer               *)
(***************************************************************************)
\* retry.ts:12-32  the call with its options, up to the first fn(); with
\* attempts < 1 the loop is skipped and line 54 throws the unassigned lastError
WithRetry(attempts, delay, exponentialBackoff) ==
  /\ retry.phase = "idle"
  /\ retry' = IF 1 <= attempts
              THEN [RetryIdle EXCEPT !.phase = "calling", !.attempts = attempts,
                                     !.delay = delay,
                                     !.exponentialBackoff = exponentialBackoff,
                                     !.attempt = 1]
              ELSE [RetryIdle EXCEPT !.phase = "raised", !.attempts = attempts,
                                     !.delay = delay,
                                     !.exponentialBackoff = exponentialBackoff,
                                     !.attempt = 1,
                                     !.result = Rethrown("undefined")]
  /\ UNCHANGED cacheVars
  /\ UNCHANGED <<logFiles, logged, today, writes>>

\* retry.ts:32  fn() resolves: withRetry returns its value
FnResolves(value) ==
  /\ retry.phase = "calling"
  /\ retry' = [retry EXCEPT !.phase = "returned",
                            !.outcomes = Append(@, [ok |-> TRUE, v |-> value]),
                            !.result = Resolved(value)]
  /\ UNCHANGED cacheVars
  /\ UNCHANGED <<logFiles, logged, today, writes>>

\* retry.ts:33-50  fn() rejects: the last attempt raises, an earlier one calls
\* onRetry and starts the timer
FnRejects(error) ==
  /\ retry.phase = "calling"
  /\ retry' =
       IF retry.attempt = retry.attempts
       THEN [retry EXCEPT !.phase = "raised",
                          !.outcomes = Append(@, [ok |-> FALSE, v |-> error]),
                          !.log = @ \cup {"All retry attempts failed"},
                          !.result = NetworkError(retry.attempts, error)]
       ELSE [retry EXCEPT !.phase = "waiting",
                          !.outcomes = Append(@, [ok |-> FALSE, v |-> error]),
                          !.onRetry = Append(@, [error |-> error, attempt |-> retry.attempt]),
                          !.waits = Append(@, waitTime(retry.delay, retry.exponentialBackoff,
                                                       retry.attempt))]
  /\ UNCHANGED cacheVars
  /\ UNCHANGED <<logFiles, logged, today, writes>>

\* retry.ts:50, 30  the timer fires: attempt++ and the loop test; line 54 when
\* the loop ends
TimerFires ==
  /\ retry.phase = "waiting"
  /\ retry' =
       IF retry.attempt + 1 <= retry.attempts
       THEN [retry EXCEPT !.phase = "calling", !.attempt = @ + 1]
       ELSE [retry EXCEPT !.phase = "raised", !.attempt = @ + 1,
                          !.result = Rethrown(retry.outcomes[Len(retry.outcomes)].v)]
  /\ UNCHANGED cacheVars
  /\ UNCHANGED <<logFiles, logged, today, writes>>

(***************************************************************************)
(* The calls of the logger  (logger.ts:158-209)                            *)
(***************************************************************************)
\* midnight passes
NextDay ==
  /\ today < Len(Dates)
  /\ today' = today + 1
  /\ UNCHANGED cacheVars
  /\ UNCHANGED <<retry, logFiles, logged, writes>>

\* debug, info, warn or error with a message only
Log(level, message) ==
  /\ writes < MaxWrites
  /\ writes' = writes + 1
  /\ IF LevelRank(logLevel) <= LevelRank(level)
     THEN /\ logFiles' = writeToFile(logFiles, level, message, Dates[today], writes + 1)
          /\ logged' = [level |-> level, message |-> message, hasData |-> FALSE,
                        data |-> JNull, raised |-> FALSE]
     ELSE UNCHANGED <<logFiles, logged>>
  /\ UNCHANGED cacheVars
  /\ UNCHANGED <<retry, today>>

\* debug, info, warn or error with a message and a data object:
\* `${message} ${JSON.stringify(this.sanitizeData(data), null, 2)}` (the
\* indentation is left out of the text), which throws on a cycle that is left
\* in the sanitized data
LogData(level, message, data) ==
  LET sanitized == sanitizeData(data, 0)
  IN /\ writes < MaxDataWrites
     /\ writes' = writes + 1
     /\ IF LevelRank(logLevel) <= LevelRank(level)
        THEN IF JSONthrows(sanitized)
             THEN /\ logged' = [level |-> level, message |-> message, hasData |-> TRUE,
                                data |-> sanitized, raised |-> TRUE]
                  /\ UNCHANGED logFiles
             ELSE /\ logFiles' = writeToFile(logFiles, level,
                                             message \o " " \o JSONstringify(sanitized),
                                             Dates[today], writes + 1)
                  /\ logged' = [level |-> level, message |-> message, hasData |-> TRUE,
                                data |-> sanitized, raised |-> FALSE]
        ELSE UNCHANGED <<logFiles, logged>>
     /\ UNCHANGED cacheVars
     /\ UNCHANGED <<retry, today>>

(***************************************************************************)
(* set, statement by statement  (retry.ts:287-339)                         *)
(*                                                                         *)
(* Several processes of the tool share one cache directory: each has its   *)
(* own CacheManager (its own memory tier), and the file-system calls of    *)
(* their set bodies interleave.  Within one process the calls are run by  *)
(* one JavaScript thread.                                                  *)
(***************************************************************************)
\* the call is between two statements of the body of set
InBody(call) == call.pc \in {"writeEntry", "loadMetadata", "saveMetadata"}

\* faulty variant: the body of set yields between its statements (as if it
\* awaited its file-system calls), so another call of the process may run
RunnableAfterAwait(c, instance) == TRUE

\* retry.ts:287-339: the body of set holds no await, so the thread of a
\* process runs it to its end before it runs a statement of another call
Runnable(c, instance) ==
  \A other \in 1..MaxCalls \ {c} :
    calls[other].instance = instance => ~InBody(calls[other])

\* retry.ts:293-308: set is called in a process; the key and the timestamp
\* are fixed and the entry is serialized
CallSet(c, instance, identifier) ==
  /\ calls[c].pc = "idle"
  /\ \A earlier \in 1..(c - 1) : calls[earlier].pc # "idle"
  /\ Runnable(c, instance)
  /\ calls' = [calls EXCEPT ![c] =
                 [NotCalled EXCEPT !.pc = "writeEntry", !.instance = instance,
                                   !.identifier = identifier,
                                   !.key = generateKey(SharedNamespace, identifier),
                                   !.timestamp = now]]
  /\ UNCHANGED <<now, memoryCache, currentMemorySize, dirs, files, metadataDocs, corrupt,
                 last, ops, instances>>
  /\ UNCHANGED <<retry, logFiles, logged, today, writes>>

\* retry.ts:313  fs.writeFileSync(filePath, content)
WriteEntry(c) ==
  LET call == calls[c]
      content == [data |-> JSONstringify(DValue), timestamp |-> call.timestamp,
                  ttl |-> EffectiveTtl(NoOptions), size |-> 0, key |-> call.key]
  IN /\ call.pc = "writeEntry"
     /\ Runnable(c, call.instance)
     /\ files' = Put(files, getFilePath(call.key, SharedNamespace), content)
     /\ calls' = [calls EXCEPT ![c].pc = "loadMetadata"]
     /\ UNCHANGED <<now, memoryCache, currentMemorySize, dirs, metadataDocs, corrupt,
                    last, ops, instances>>
     /\ UNCHANGED <<retry, logFiles, logged, today, writes>>

\* retry.ts:316  const metadata = this.loadMetadata(namespace)
LoadMetadata(c) ==
  LET call == calls[c]
  IN /\ call.pc = "loadMetadata"
     /\ Runnable(c, call.instance)
     /\ calls' = [calls EXCEPT
                    ![c].pc = "saveMetadata",
                    ![c].metadata = loadMetadata(metadataDocs, corrupt, SharedNamespace, "none")]
     /\ UNCHANGED <<now, memoryCache, currentMemorySize, dirs, files, metadataDocs, corrupt,
                    last, ops, instances>>
     /\ UNCHANGED <<retry, logFiles, logged, today, writes>>

\* the number of saveMetadata calls made so far
SavesSoFar == Cardinality({c \in 1..MaxCalls : calls[c].saved > 0})

\* retry.ts:317-335: the record is put into the document this call loaded,
\* the document is written, and the entry goes into the memory tier of the
\* process
SaveMetadata(c) ==
  LET call == calls[c]
      size == Len(JSONstringify(DValue))
      record == [key |-> call.key, timestamp |-> call.timestamp,
                 ttl |-> EffectiveTtl(NoOptions), size |-> size,
                 fingerprint |-> generateFingerprint(DValue), accessed |-> call.timestamp]
      entry == [key |-> call.key, data |-> DValue, timestamp |-> call.timestamp,
                ttl |-> EffectiveTtl(NoOptions), size |-> size]
      memory == instances[call.instance]
  IN /\ call.pc = "saveMetadata"
     /\ Runnable(c, call.instance)
     /\ metadataDocs' =
          saveMetadata(metadataDocs, SharedNamespace, Put(call.metadata, call.key, record), "none")
     /\ instances' = [instances EXCEPT ![call.instance] =
                        Insert(memory.memoryCache, memory.currentMemorySize, entry)]
     /\ calls' = [calls EXCEPT ![c].pc = "done", ![c].saved = SavesSoFar + 1]
     /\ UNCHANGED <<now, memoryCache, currentMemorySize, dirs, files, corrupt, last, ops>>
     /\ UNCHANGED <<retry, logFiles, logged, today, writes>>

(***************************************************************************)
(* Specifications.                                                         *)
(***************************************************************************)
\* the operations on a file system that does not fail
Next ==
  \/ Tick
  \/ \E ns \in Namespaces, id \in Identifiers, d \in DataInputs, o \in OptionInputs :
       Set(ns, id, d, o, "none")
  \/ \E ns \in Namespaces, id \in Identifiers, a \in BOOLEAN : Get(ns, id, a, "none")
  \/ \E ns \in Namespaces, arg \in IdentifierArgs : Invalidate(ns, arg.has, arg.id, "none")
  \/ Cleanup("none")

Spec == Init /\ [][Next]_vars

\* the files of the cache that may be damaged from outside
FaultPaths ==
  {getMetadataPath(ns) : ns \in FaultNamespaces}
    \cup {getFilePath(generateKey(ns, id), ns) : ns \in FaultNamespaces, id \in Identifiers}

\* a file of the cache is damaged from outside (truncated, overwritten)
Corrupt(path) ==
  /\ path \in (DOMAIN files \cup DOMAIN metadataDocs) \ corrupt
  /\ corrupt' = corrupt \cup {path}
  /\ UNCHANGED <<now, memoryCache, currentMemorySize, dirs, files, metadataDocs, last, ops>>
  /\ UNCHANGED outsideCache

\* the operations on a file system whose calls may fail
NextF ==
  \/ Tick
  \/ \E ns \in FaultNamespaces, id \in FaultIdentifiers, d \in FaultDataInputs,
        f \in SetFaults : Set(ns, id, d, WithTtl(1), f)
  \/ \E ns \in FaultNamespaces, id \in FaultIdentifiers, a \in BOOLEAN, f \in GetFaults :
       Get(ns, id, a, f)
  \/ \E ns \in FaultNamespaces, arg \in FaultIdentifierArgs, f \in InvalidateFaults :
       Invalidate(ns, arg.has, arg.id, f)
  \/ \E f \in CleanupFaults : Cleanup(f)
  \/ \E arg \in StatusNamespaceArgs, f \in StatusFaults : GetCacheStatus(arg.has, arg.ns, f)
  \/ \E path \in FaultPaths : Corrupt(path)
  \/ Restart

SpecF == Init /\ [][NextF]_vars

\* the operations on a file system that does not fail, with files damaged
\* from outside
NextCorrupt ==
  \/ Tick
  \/ \E ns \in FaultNamespaces, id \in Identifiers, d \in StatusDataInputs :
       Set(ns, id, d, WithTtl(1), "none")
  \/ \E ns \in FaultNamespaces, id \in Identifiers, a \in BOOLEAN : Get(ns, id, a, "none")
  \/ \E arg \in StatusNamespaceArgs : GetCacheStatus(arg.has, arg.ns, "none")
  \/ \E path \in FaultPaths : Corrupt(path)

SpecCorrupt == Init /\ [][NextCorrupt]_vars

\* calls of set on one namespace, made in the processes that share the cache
\* directory and followed statement by statement
NextCalls ==
  \/ Tick
  \/ \E c \in 1..MaxCalls, instance \in Instances, identifier \in CallIdentifiers :
       CallSet(c, instance, identifier)
  \/ \E c \in 1..MaxCalls : WriteEntry(c)
  \/ \E c \in 1..MaxCalls : LoadMetadata(c)
  \/ \E c \in 1..MaxCalls : SaveMetadata(c)

SpecCalls == Init /\ [][NextCalls]_vars

\* the operations on a file system that does not fail, with process restarts
\* and status reads
NextS ==
  \/ Tick
  \/ \E ns \in FaultNamespaces, id \in Identifiers, d \in StatusDataInputs,
        o \in StatusOptionInputs : Set(ns, id, d, o, "none")
  \/ \E ns \in FaultNamespaces, id \in Identifiers, a \in BOOLEAN : Get(ns, id, a, "none")
  \/ \E ns \in FaultNamespaces, arg \in IdentifierArgs : Invalidate(ns, arg.has, arg.id, "none")
  \/ Cleanup("none")
  \/ \E arg \in StatusNamespaceArgs : GetCacheStatus(arg.has, arg.ns, "none")
  \/ Restart

SpecS == Init /\ [][NextS]_vars

\* one call of withRetry
NextRetry ==
  \/ \E attempts \in AttemptInputs, delay \in DelayInputs, exponentialBackoff \in BOOLEAN :
       WithRetry(attempts, delay, exponentialBackoff)
  \/ \E value \in ValueInputs : FnResolves(value)
  \/ \E error \in ErrorInputs : FnRejects(error)
  \/ TimerFires

SpecRetry == Init /\ [][NextRetry]_vars

\* the logger called with messages
NextLog ==
  \/ NextDay
  \/ \E level \in LogLevels, message \in LogMessages : Log(level, message)

SpecLog == Init /\ [][NextLog]_vars

\* the logger called with data objects
NextLogData ==
  \/ NextDay
  \/ \E level \in DataLogLevels, data \in LogDataInputs : LogData(level, "a", data)

SpecLogData == Init /\ [][NextLogData]_vars

(***************************************************************************)
(* Properties.                                                             *)
(***************************************************************************)
Provisioned == {subdirs[i] : i \in 1..Len(subdirs)}
AllNamespaces == Namespaces \cup Provisioned
KeysOf(namespace) == {generateKey(namespace, id) : id \in Identifiers}
RecordsOf(namespace) == loadMetadata(metadataDocs, corrupt, namespace, "none")

\* the step is one call of op
IsCall(op) == ops' = ops + 1 /\ last'.op = op
\* the step is invalidate taking the whole-namespace branch
IsNamespaceWipe == IsCall("invalidate") /\ ~Truthy(last'.hasIdentifier, last'.identifier)

\* C1: set(ns, id, data) with JSON-representable, cycle-free data, immediately
\* followed by get(ns, id) (no operation in between, no time elapsed), makes
\* get return a value deep-equal to data.
RoundTrip ==
  [][(/\ last.op = "set"
      /\ IsJsonRepresentable(last.data)
      /\ now = last.at
      /\ IsCall("get")
      /\ last'.namespace = last.namespace
      /\ last'.identifier = last.identifier)
     => last'.ret = last.data]_vars

\* C2: after invalidate(ns) without an identifier has returned, no key of ns is
\* left in the memory tier, no entry file of ns exists and the metadata
\* document of ns holds no record.
InvalidateNamespaceClears ==
  (last.op = "invalidate" /\ ~last.hasIdentifier /\ ~last.raised)
  => /\ \A key \in KeysOf(last.namespace) :
          /\ ~memHas(memoryCache, key)
          /\ getFilePath(key, last.namespace) \notin DOMAIN files
     /\ DOMAIN RecordsOf(last.namespace) = {}

\* the entries, entry files and metadata document of one namespace
MemoryOf(mem, namespace) == SelectSeq(mem, LAMBDA e : e.key \in KeysOf(namespace))
FilesOf(fs, namespace) ==
  [q \in {getFilePath(key, namespace) : key \in KeysOf(namespace)} \cap DOMAIN fs |-> fs[q]]
DocOf(docs, namespace) ==
  [q \in {getMetadataPath(namespace)} \cap DOMAIN docs |-> docs[q]]

\* C3: invalidate(ns) without an identifier leaves the memory entries, the
\* entry files and the metadata document of every other namespace as they
\* were, also for equal identifiers and when ns is a prefix of the other name.
NamespaceIsolation ==
  [][IsNamespaceWipe
     => \A other \in AllNamespaces \ {last'.namespace} :
          /\ MemoryOf(memoryCache', other) = MemoryOf(memoryCache, other)
          /\ FilesOf(files', other) = FilesOf(files, other)
          /\ DocOf(metadataDocs', other) = DocOf(metadataDocs, other)
          /\ (other \in dirs') = (other \in dirs)]_vars

\* C3 witness: invalidate("leet") has run while "leetcode" holds an entry in
\* the memory tier, the file tier and the metadata document.
NamespaceIsolationWitness ==
  /\ last.op = "invalidate" /\ ~last.hasIdentifier /\ ~last.raised
  /\ last.namespace = "leet"
  /\ \E key \in KeysOf("leetcode") :
       /\ memHas(memoryCache, key)
       /\ getFilePath(key, "leetcode") \in DOMAIN files
       /\ key \in DOMAIN RecordsOf("leetcode")

\* C4: invalidate(ns, id) with an identifier supplied, the empty string
\* included, removes the entry of (ns, id) from the memory tier, the file tier
\* and the metadata document and leaves every other entry of ns in place.
InvalidateOneRemovesExactlyOne ==
  [][(IsCall("invalidate") /\ last'.hasIdentifier /\ ~last'.raised)
     => LET namespace == last'.namespace
            key == generateKey(namespace, last'.identifier)
            before == loadMetadata(metadataDocs, corrupt, namespace, "none")
            after == loadMetadata(metadataDocs', corrupt', namespace, "none")
        IN /\ ~memHas(memoryCache', key)
           /\ getFilePath(key, namespace) \notin DOMAIN files'
           /\ key \notin DOMAIN after
           /\ memDelete(memoryCache', key) = memDelete(memoryCache, key)
           /\ \A k \in KeysOf(namespace) \ {key} :
                /\ (getFilePath(k, namespace) \in DOMAIN files')
                     = (getFilePath(k, namespace) \in DOMAIN files)
                /\ (k \in DOMAIN after) = (k \in DOMAIN before)]_vars

\* C8: after set on a namespace that was not provisioned at startup has
\* returned, the namespace directory exists and holds the entry file and a
\* metadata record of the key.
SetCreatesNamespace ==
  (last.op = "set" /\ ~last.raised /\ last.namespace \notin Provisioned)
  => LET key == generateKey(last.namespace, last.identifier)
     IN /\ last.namespace \in dirs
        /\ getFilePath(key, last.namespace) \in DOMAIN files
        /\ key \in DOMAIN RecordsOf(last.namespace)

\* C9: set with data that contains itself as a descendant completes without
\* raising.
CycleSafety == (last.op = "set" /\ HasCycle(last.data)) => ~last.raised

\* C5: get without acceptExpired returns the cached value of an entry with
\* timestamp t0 and ttl d at every query time up to and including t0 + d, and
\* absent after it; the memory tier and the file tier apply the same rule.
ExpirationWindow ==
  [][(IsCall("get") /\ ~last'.acceptExpired)
     => LET key == generateKey(last'.namespace, last'.identifier)
            filePath == getFilePath(key, last'.namespace)
            inMemory == memHas(memoryCache, key)
            inFile == filePath \in DOMAIN files
            e == memGet(memoryCache, key)
            c == files[filePath]
        IN /\ (inMemory /\ now <= e.timestamp + e.ttl) => last'.ret = e.data
           /\ (inFile /\ now <= c.timestamp + c.ttl) => last'.ret = JSONparse(c.data)
           /\ (inFile /\ now > c.timestamp + c.ttl) => last'.ret = JNull
           /\ (inMemory /\ now > e.timestamp + e.ttl /\ ~inFile) => last'.ret = JNull]_vars

\* C5 witness: a get at the boundary instant t0 + d has returned the value.
ExpirationWindowWitness ==
  /\ last.op = "get" /\ ~last.acceptExpired /\ last.ret # JNull
  /\ now = last.at
  /\ LET key == generateKey(last.namespace, last.identifier)
         filePath == getFilePath(key, last.namespace)
     IN /\ filePath \in DOMAIN files
        /\ files[filePath].ttl = 1
        /\ now = files[filePath].timestamp + files[filePath].ttl

\* the entry file at path is expired
FileExpired(path) == now - files[path].timestamp > files[path].ttl
\* the step is a call on the key whose entry file is path
TouchesPath(path) ==
  getFilePath(generateKey(last'.namespace, last'.identifier), last'.namespace) = path
\* the step is one of the three that may remove or replace the file at path
SweepsOrReplaces(path) ==
  \/ IsCall("cleanup")
  \/ IsCall("set") /\ TouchesPath(path)
  \/ IsCall("invalidate") /\ startsWith(path, last'.namespace \o "/")

\* C6 (as claimed): an expired entry file stays until cleanup, a set of its key
\* or an invalidate removes or replaces it; and after a get without
\* acceptExpired returned absent for an expired entry, a get with
\* acceptExpired of the same key still returns the stale data.
StaleRetention ==
  [][/\ \A path \in DOMAIN files :
          (FileExpired(path) /\ ~SweepsOrReplaces(path)) => path \in DOMAIN files'
     /\ (/\ last.op = "get" /\ ~last.acceptExpired
         /\ "Cache expired and removed" \in last.log
         /\ IsCall("get") /\ last'.acceptExpired
         /\ last'.namespace = last.namespace /\ last'.identifier = last.identifier)
        => last'.ret # JNull]_vars

\* C6 (amended): an expired entry file stays until cleanup, a set of its key,
\* an invalidate or a get of its key without acceptExpired removes or replaces
\* it; while the file is there, a get with acceptExpired returns the stale
\* data and keeps the file.
StaleRetentionUntilRead ==
  [][\A path \in DOMAIN files :
       FileExpired(path)
       => /\ (~SweepsOrReplaces(path)
              /\ ~(IsCall("get") /\ ~last'.acceptExpired /\ TouchesPath(path)))
             => (path \in DOMAIN files' /\ files'[path] = files[path])
          /\ (IsCall("get") /\ last'.acceptExpired /\ TouchesPath(path))
             => last'.ret = JSONparse(files[path].data)]_vars

\* C6 witness: a get with acceptExpired has returned the data of an expired
\* entry file.
StaleRetentionWitness ==
  /\ last.op = "get" /\ last.acceptExpired /\ last.ret # JNull
  /\ LET filePath == getFilePath(generateKey(last.namespace, last.identifier), last.namespace)
     IN filePath \in DOMAIN files /\ FileExpired(filePath)

\* C7: when a set or a file-tier promotion has completed, eviction included,
\* the running size total is at most the capacity.
EvictionBound ==
  (last.op = "set" \/ "Cache hit (file)" \in last.log)
  => currentMemorySize <= maxMemorySize

\* C7 witness: a set has stored an entry and the eviction it triggered has
\* emptied the memory tier, the new entry included, with the total still
\* above zero.
EvictionBoundWitness ==
  /\ last.op = "set" /\ "Cache stored" \in last.log
  /\ memoryCache = <<>>
  /\ currentMemorySize > 0

\* C10: a set whose data serializes returns normally under every failure of
\* the entry-file write or the metadata save, and logs the failure: when the
\* entry file it was to write is not there, or the record it was to save is
\* not in the document, the matching error line was logged.
SetSurvivesWriteFailure ==
  (last.op = "set" /\ ~HasCycle(last.data))
  => LET key == generateKey(last.namespace, last.identifier)
         filePath == getFilePath(key, last.namespace)
         metadataPath == getMetadataPath(last.namespace)
         fileThere == /\ filePath \in DOMAIN files
                      /\ files[filePath].timestamp = last.at
                      /\ files[filePath].data = JSONstringify(last.data)
         recordThere == /\ metadataPath \in DOMAIN metadataDocs
                        /\ key \in DOMAIN metadataDocs[metadataPath]
                        /\ metadataDocs[metadataPath][key].timestamp = last.at
     IN /\ ~last.raised
        /\ ~fileThere => "Failed to store cache" \in last.log
        /\ ~recordThere
             => last.log \cap {"Failed to store cache", "Failed to save cache metadata"} # {}

\* C10 witness: the metadata save of a set failed; the set returned and the
\* entry is in the file tier and the memory tier.
SetSurvivesWriteFailureWitness ==
  /\ last.op = "set" /\ ~last.raised
  /\ "Failed to save cache metadata" \in last.log
  /\ memHas(memoryCache, generateKey(last.namespace, last.identifier))
  /\ getFilePath(generateKey(last.namespace, last.identifier), last.namespace) \in DOMAIN files

\* C11: get, invalidate (one key or a whole namespace), cleanup and
\* getCacheStatus return normally under every failure of a file-system call.
NoErrorSurfaced ==
  last.op \in {"get", "invalidate", "cleanup", "getCacheStatus"} => ~last.raised

\* C12: cleanup() removes, in every known namespace, the entry file and the
\* metadata record of exactly the keys whose record is expired at the call,
\* leaves the file and the record of every other key as they were, and the
\* totalEntries the status reports for the namespace drops by the number of
\* expired records.
CleanupSweep ==
  [][IsCall("cleanup")
     => \A i \in 1..Len(subdirs) :
          LET namespace == subdirs[i]
              before == loadMetadata(metadataDocs, corrupt, namespace, "none")
              after == loadMetadata(metadataDocs', corrupt', namespace, "none")
              expired == {k \in DOMAIN before : now > before[k].timestamp + before[k].ttl}
              swept == {getFilePath(k, namespace) : k \in expired}
          IN /\ DOMAIN after = DOMAIN before \ expired
             /\ \A k \in DOMAIN after : after[k] = before[k]
             /\ \A path \in swept : path \notin DOMAIN files'
             /\ \A path \in Under(namespace, DOMAIN files) \ swept :
                  path \in DOMAIN files' /\ files'[path] = files[path]
             /\ Under(namespace, DOMAIN files') \subseteq DOMAIN files
             /\ fileCacheOf(after, now).totalEntries
                  = fileCacheOf(before, now).totalEntries - Cardinality(expired)]_vars

\* C12 witness: a cleanup has swept an expired record and its file while the
\* record and the file of a key that is not expired are still there.
CleanupSweepWitness ==
  /\ last.op = "cleanup" /\ "Cache cleanup completed" \in last.log
  /\ \E i \in 1..Len(subdirs), id \in Identifiers :
       LET key == generateKey(subdirs[i], id)
       IN /\ key \in DOMAIN RecordsOf(subdirs[i])
          /\ getFilePath(key, subdirs[i]) \in DOMAIN files

\* C13: when get serves a key that is absent from the memory tier from its
\* entry file, the key is resident in the memory tier when get returns and
\* the memory tier holds one entry more than before.
TierPromotion ==
  [][(IsCall("get") /\ "Cache hit (file)" \in last'.log)
     => /\ memHas(memoryCache', generateKey(last'.namespace, last'.identifier))
        /\ Len(memoryCache') = Len(memoryCache) + 1]_vars

\* C14: a process restart empties the memory tier, zeroes the running total,
\* provisions the directories and leaves every file as it was; a set that
\* stored its entry has put the data into the entry file; and a get on the
\* restarted process (memory tier empty, running total 0) returns the data of
\* every entry file that is still fresh, which for the entry of the last set
\* is the data that set was given.
DurabilityAcrossRestarts ==
  [][/\ (IsCall("set") /\ "Cache stored" \in last'.log)
        => LET filePath == getFilePath(generateKey(last'.namespace, last'.identifier),
                                       last'.namespace)
           IN /\ filePath \in DOMAIN files'
              /\ JSONparse(files'[filePath].data) = last'.data
              /\ files'[filePath].timestamp = now
     /\ (ops' = ops /\ now' = now)
        => /\ memoryCache' = <<>> /\ currentMemorySize' = 0
           /\ files' = files /\ metadataDocs' = metadataDocs /\ corrupt' = corrupt
           /\ dirs \subseteq dirs' /\ Provisioned \subseteq dirs'
     /\ (memoryCache = <<>> /\ currentMemorySize = 0 /\ IsCall("get"))
        => LET filePath == getFilePath(generateKey(last'.namespace, last'.identifier),
                                       last'.namespace)
           IN (filePath \in DOMAIN files
               /\ now <= files[filePath].timestamp + files[filePath].ttl)
              => /\ last'.ret = JSONparse(files[filePath].data)
                 /\ (/\ last.op = "set" /\ "Cache stored" \in last.log
                     /\ last.namespace = last'.namespace
                     /\ last.identifier = last'.identifier)
                    => last'.ret = last.data]_vars

\* C14 witness: the second operation of the process pair, a get, has returned
\* the data of the set before it from the entry file: the memory tier was
\* emptied by a restart in between.
DurabilityWitness ==
  /\ ops = 2
  /\ last.op = "get" /\ "Cache hit (file)" \in last.log
  /\ last.ret = DValue
  /\ memHas(memoryCache, generateKey(last.namespace, last.identifier))

\* the sum of the size fields of the records under keys
RECURSIVE SizeOfRecords(_, _)
SizeOfRecords(records, keys) ==
  IF keys = {} THEN 0
  ELSE LET k == CHOOSE x \in keys : TRUE
       IN records[k].size + SizeOfRecords(records, keys \ {k})

\* C15: getCacheStatus reports, for the namespace given or else for the three
\* known ones, the number of metadata records as totalEntries, the number of
\* records that are not expired as validEntries, the sum of the record sizes as
\* totalSize and the least and greatest record timestamp as oldestEntry and
\* newestEntry (null without records), and changes neither tier nor any
\* metadata document.
StatusIsPureRead ==
  [][IsCall("getCacheStatus")
     => LET scope == IF last'.hasIdentifier THEN {last'.namespace} ELSE Provisioned
            fileCache == last'.ret.fileCache
        IN /\ DOMAIN fileCache = scope
           /\ \A ns \in scope :
                LET records == RecordsOf(ns)
                    keys == DOMAIN records
                    report == fileCache[ns]
                IN /\ report.totalEntries = Cardinality(keys)
                   /\ report.validEntries
                        = Cardinality({k \in keys :
                                         now <= records[k].timestamp + records[k].ttl})
                   /\ report.totalSize = SizeOfRecords(records, keys)
                   /\ keys = {} => report.oldestEntry = JNull /\ report.newestEntry = JNull
                   /\ keys # {}
                      => /\ report.oldestEntry.t = "num" /\ report.newestEntry.t = "num"
                         /\ \E k \in keys : records[k].timestamp = report.oldestEntry.n
                         /\ \E k \in keys : records[k].timestamp = report.newestEntry.n
                         /\ \A k \in keys :
                              /\ report.oldestEntry.n <= records[k].timestamp
                              /\ records[k].timestamp <= report.newestEntry.n
           /\ UNCHANGED <<memoryCache, currentMemorySize, dirs, files, metadataDocs, corrupt>>]_vars

\* C15 witness: a status read has reported a namespace with an expired and a
\* valid record of different timestamps.
StatusWitness ==
  /\ last.op = "getCacheStatus" /\ last.hasIdentifier
  /\ LET report == last.ret.fileCache[last.namespace]
     IN /\ report.totalEntries = 2
        /\ report.validEntries = 1
        /\ report.oldestEntry # report.newestEntry

\* C19: after every completed operation the running size total of the memory
\* tier equals the sum of the size fields of the resident entries.
SizeAccounting == currentMemorySize = memSum(memoryCache)

\* C20: when get has found the entry file expired without acceptExpired, the
\* entry file and the metadata record of the key are both gone and get has
\* returned absent.
ExpiredGetDeletesRecord ==
  (last.op = "get" /\ "Cache expired and removed" \in last.log)
  => LET key == generateKey(last.namespace, last.identifier)
     IN /\ getFilePath(key, last.namespace) \notin DOMAIN files
        /\ key \notin DOMAIN RecordsOf(last.namespace)
        /\ last.ret = JNull

\* C16: a withRetry with attempts >= 1 invokes fn at most attempts times and
\* never after a success, returns the value of the success, raises a
\* NetworkError carrying the last error when every attempt failed, has called
\* onRetry once after each failed attempt but the last, and has waited
\* delay * 2^(k-1) after the k-th failure (delay without exponential backoff).
RetryContract ==
  retry.attempts >= 1
  => LET n == Len(retry.outcomes)
         retried == IF retry.phase = "raised" THEN n - 1 ELSE Len(SelectSeq(retry.outcomes, LAMBDA o : ~o.ok))
     IN /\ n <= retry.attempts
        /\ \A i \in 1..(n - 1) : ~retry.outcomes[i].ok
        /\ (retry.phase = "returned") = (n >= 1 /\ retry.outcomes[n].ok)
        /\ retry.phase = "returned"
           => retry.result.kind = "value" /\ retry.result.value = retry.outcomes[n].v
        /\ retry.phase = "raised"
           => /\ n = retry.attempts
              /\ ~retry.outcomes[n].ok
              /\ retry.result.kind = "NetworkError"
              /\ retry.result.value = retry.outcomes[n].v
        /\ Len(retry.onRetry) = retried
        /\ Len(retry.waits) = retried
        /\ \A k \in 1..retried :
             /\ retry.onRetry[k] = [error |-> retry.outcomes[k].v, attempt |-> k]
             /\ retry.waits[k] = IF retry.exponentialBackoff
                                 THEN retry.delay * 2^(k - 1)
                                 ELSE retry.delay

\* C16 witness: three attempts with exponential backoff have all failed.
RetryWitness ==
  /\ retry.phase = "raised" /\ retry.attempts = 3 /\ retry.exponentialBackoff
  /\ retry.waits = <<retry.delay, 2 * retry.delay>>
  /\ retry.result.kind = "NetworkError"

\* the current log files of the levels and days, and the names a log file and
\* its rotated files may have
LogFilePaths == {getLogFilePath(level, Dates[d]) : level \in LogLevels, d \in 1..Len(Dates)}
FamilyOf(logFile) == <<logFile, RotatedPath(logFile, 1), RotatedPath(logFile, 2),
                       RotatedPath(logFile, 3), RotatedPath(logFile, 4)>>

\* C17: after every log write only the current file and the rotated files .1
\* to .4 of each level and day exist; the write rotates the current file
\* before appending exactly when that file exceeds the size limit; the
\* current and rotated files are in age order, .1 the newest rotated one; and
\* the only file a write deletes is the oldest rotated one, .4.
LogRotation ==
  [][(writes' = writes + 1)
     => LET logFile == getLogFilePath(logged'.level, Dates[today])
            exceeded == logFile \in DOMAIN logFiles /\ logFiles[logFile].size > maxLogSize
            rotatedNow == /\ logFile \in DOMAIN logFiles
                          /\ RotatedPath(logFile, 1) \in DOMAIN logFiles'
                          /\ logFiles'[RotatedPath(logFile, 1)].born = logFiles[logFile].born
            oldest == RotatedPath(logFile, 4)
            bornBefore == {logFiles[q].born : q \in DOMAIN logFiles}
            bornAfter == {logFiles'[q].born : q \in DOMAIN logFiles'}
        IN /\ DOMAIN logFiles'
                \subseteq UNION {{FamilyOf(b)[i] : i \in 1..5} : b \in LogFilePaths}
           /\ rotatedNow = exceeded
           /\ logFile \in DOMAIN logFiles'
           /\ ~exceeded => (logFile \in DOMAIN logFiles
                            => logFiles'[logFile].born = logFiles[logFile].born)
           /\ \A b \in LogFilePaths : \A i, j \in 1..5 :
                (i < j /\ FamilyOf(b)[i] \in DOMAIN logFiles' /\ FamilyOf(b)[j] \in DOMAIN logFiles')
                => logFiles'[FamilyOf(b)[i]].born > logFiles'[FamilyOf(b)[j]].born
           /\ bornBefore \ bornAfter
                \subseteq {logFiles[q].born : q \in {oldest} \cap DOMAIN logFiles}]_vars

\* C17 witness: the current file of one level and day and its four rotated
\* files exist, and the file of the first write has been deleted.
LogRotationWitness ==
  /\ today = 1
  /\ \E b \in LogFilePaths :
       /\ DOMAIN logFiles = {FamilyOf(b)[i] : i \in 1..5}
       /\ logFiles[FamilyOf(b)[5]].born > 1

\* every property of v, at every depth, whose name contains a sensitive name
\* holds '[REDACTED]'
RECURSIVE Redacted(_)
Redacted(v) ==
  \A i \in 1..Len(v.kids) :
    IF v.t = "obj" /\ IsSensitive(v.keys[i])
    THEN v.kids[i] = JStr("[REDACTED]")
    ELSE Redacted(v.kids[i])

\* C18: in the data object a logger call has written, the value of every
\* property whose name contains a sensitive name, in any letter case, is
\* '[REDACTED]', at every nesting depth.
LogSanitization == (logged.hasData /\ ~logged.raised) => Redacted(logged.data)

\* the keys with an entry file in a namespace, and the keys with a record in
\* its metadata document
FileKeysOf(namespace) ==
  {key \in KeysOf(namespace) : getFilePath(key, namespace) \in DOMAIN files}
RecordKeysOf(namespace) == DOMAIN RecordsOf(namespace)

\* C21: on a file system that does not fail and without corrupt files, after
\* every completed operation the keys with a record in a namespace's metadata
\* document are exactly the keys with an entry file in that namespace.
MetadataFileCoherence ==
  \A namespace \in AllNamespaces : RecordKeysOf(namespace) = FileKeysOf(namespace)

\* the namespace directory a memory key belongs to: the entry file of key is
\* getFilePath(key, namespace)
HasEntryFile(key) ==
  \E namespace \in AllNamespaces :
    key \in KeysOf(namespace) /\ getFilePath(key, namespace) \in DOMAIN files

\* C22: on a file system that does not fail, after every completed operation
\* each key of the memory map has an entry file in its namespace.
MemoryBackedByFile ==
  \A i \in 1..Len(memoryCache) : HasEntryFile(memoryCache[i].key)

\* the step inserts an entry into the memory tier: a set that stored its entry
\* or a get served from the file tier (retry.ts:328-333 and 257-262)
IsInsert ==
  \/ IsCall("set") /\ "Cache stored" \in last'.log
  \/ IsCall("get") /\ "Cache hit (file)" \in last'.log
InsertedKey == generateKey(last'.namespace, last'.identifier)
\* the running total right after the insert, before any eviction
TotalAfterInsert ==
  LET dropped == IF last'.op = "get" /\ memHas(memoryCache, InsertedKey)
                 THEN memGet(memoryCache, InsertedKey).size ELSE 0
  IN currentMemorySize - dropped
     + Len(files'[getFilePath(InsertedKey, last'.namespace)].data)
ResidentKeys(mem) == {mem[i].key : i \in 1..Len(mem)}

\* C23: an insert evicts only when it leaves the running total strictly above
\* the capacity, and an eviction ends with the running total at most 80% of the
\* capacity or with an empty memory tier, never in between while entries remain.
TwoThresholdEviction ==
  [][IsInsert =>
     LET before == ResidentKeys(memoryCache) \cup {InsertedKey}
         after == ResidentKeys(memoryCache')
     IN /\ TotalAfterInsert <= maxMemorySize
           => after = before /\ currentMemorySize' = TotalAfterInsert
        /\ TotalAfterInsert > maxMemorySize
           => 10 * currentMemorySize' <= 8 * maxMemorySize \/ memoryCache' = <<>>
        /\ after # before
           => /\ TotalAfterInsert > maxMemorySize
              /\ after \subseteq before
              /\ 10 * currentMemorySize' <= 8 * maxMemorySize \/ after = {}]_vars

\* C23 witness: three entries of 12 bytes were set; the third set raised the
\* total to 36, above the capacity of 24, and the eviction went on past 24 (the
\* capacity) down to 12, leaving one entry resident.
TwoThresholdWitness ==
  /\ last.op = "set" /\ ops = 3
  /\ Cardinality(DOMAIN files) = 3
  /\ \A path \in DOMAIN files : Len(files[path].data) = 12
  /\ Len(memoryCache) = 1
  /\ currentMemorySize = 12

\* the creation timestamp of a key that takes part in the eviction of an
\* insert step: the inserted entry carries the timestamp of its entry file
TimestampAtInsert(key) ==
  IF key = InsertedKey
  THEN files'[getFilePath(InsertedKey, last'.namespace)].timestamp
  ELSE memGet(memoryCache, key).timestamp

SuppliedTtl == IF last.options.hasTtl THEN last.options.ttl ELSE 24 * 60 * 60 * 1000

\* C25: when a set has stored its entry, the ttl recorded in the memory entry,
\* in the entry file and in the metadata record is the ttl the caller passed,
\* the value 0 included, and 24 hours only when no ttl was passed.
TtlRecorded ==
  (last.op = "set" /\ "Cache stored" \in last.log)
  => LET key == generateKey(last.namespace, last.identifier)
         filePath == getFilePath(key, last.namespace)
     IN /\ memHas(memoryCache, key) => memGet(memoryCache, key).ttl = SuppliedTtl
        /\ files[filePath].ttl = SuppliedTtl
        /\ RecordsOf(last.namespace)[key].ttl = SuppliedTtl

\* the number of entries the memory map holds under key
MemoryCount(mem, key) == Len(SelectSeq(mem, LAMBDA e : e.key = key))

\* C26: a set that stores an entry for a key an earlier set has stored (its
\* entry file exists) leaves exactly one memory entry, one entry file and one
\* metadata record for the key, each carrying the timestamp, ttl and size of
\* this set, and a get of the key right after it returns the data of this set.
Overwrite ==
  [][LET key == generateKey(last'.namespace, last'.identifier)
         filePath == getFilePath(key, last'.namespace)
         size == Len(JSONstringify(last'.data))
         carries(copy) ==
           /\ copy.timestamp = now
           /\ copy.ttl = (IF last'.options.hasTtl THEN last'.options.ttl
                          ELSE 24 * 60 * 60 * 1000)
           /\ copy.size = size
     IN /\ (IsCall("set") /\ "Cache stored" \in last'.log /\ filePath \in DOMAIN files)
           => /\ MemoryCount(memoryCache', key) = 1
              /\ carries(memGet(memoryCache', key))
              /\ filePath \in DOMAIN files' /\ carries(files'[filePath])
              /\ key \in DOMAIN metadataDocs'[getMetadataPath(last'.namespace)]
              /\ carries(metadataDocs'[getMetadataPath(last'.namespace)][key])
        /\ (/\ last.op = "set" /\ "Cache stored" \in last.log /\ now = last.at
            /\ IsCall("get")
            /\ last'.namespace = last.namespace /\ last'.identifier = last.identifier)
           => last'.ret = last.data]_vars

\* C27: a set that stores the key and a get of the key served from the file
\* tier write the time of the call into the accessed field of the key's
\* metadata record, no other step changes the accessed field of a record, and
\* a get that is a memory hit or a miss leaves every metadata document as it
\* was.
AccessedField ==
  [][LET key == generateKey(last'.namespace, last'.identifier)
         metadataPath == getMetadataPath(last'.namespace)
         writesAccessed ==
           \/ IsCall("set") /\ "Cache stored" \in last'.log
           \/ IsCall("get") /\ "Cache hit (file)" \in last'.log
     IN /\ writesAccessed
           => /\ metadataPath \in DOMAIN metadataDocs'
              /\ key \in DOMAIN metadataDocs'[metadataPath]
              /\ metadataDocs'[metadataPath][key].accessed = now
        /\ (IsCall("get") /\ "Cache hit (file)" \notin last'.log)
           => metadataDocs' = metadataDocs
        /\ \A path \in DOMAIN metadataDocs \cap DOMAIN metadataDocs' :
             \A k \in DOMAIN metadataDocs[path] \cap DOMAIN metadataDocs'[path] :
               metadataDocs'[path][k].accessed # metadataDocs[path][k].accessed
               => writesAccessed /\ path = metadataPath /\ k = key]_vars

\* C27 witness: a get served from the file tier has moved the accessed field
\* of the key's record past the time of the set that stored the key.
AccessedFieldWitness ==
  /\ last.op = "get" /\ "Cache hit (file)" \in last.log
  /\ LET record == RecordsOf(last.namespace)[generateKey(last.namespace, last.identifier)]
     IN record.accessed = now /\ record.timestamp < now

\* C28: while the metadata document of a namespace cannot be parsed, loading
\* it yields the empty mapping, getCacheStatus returns normally and reports
\* zero entries for the namespace, and a set that stores an entry in the
\* namespace returns normally and rewrites the document so that it holds the
\* record of the key just set and no other, and can be parsed again.
CorruptionHeals ==
  [][LET metadataPath == getMetadataPath(last'.namespace)
         key == generateKey(last'.namespace, last'.identifier)
     IN /\ \A namespace \in AllNamespaces :
             getMetadataPath(namespace) \in corrupt => RecordsOf(namespace) = Empty
        /\ IsCall("getCacheStatus")
           => /\ ~last'.raised
              /\ \A namespace \in DOMAIN last'.ret.fileCache :
                   getMetadataPath(namespace) \in corrupt
                   => last'.ret.fileCache[namespace].totalEntries = 0
        /\ (IsCall("set") /\ "Cache stored" \in last'.log /\ metadataPath \in corrupt)
           => /\ ~last'.raised
              /\ metadataPath \notin corrupt'
              /\ DOMAIN metadataDocs'[metadataPath] = {key}
              /\ metadataDocs'[metadataPath][key].timestamp = now]_vars

\* C28 witness: a set has rewritten the metadata document of a namespace that
\* holds two entry files; the document had been damaged, so it now holds the
\* record of the key just set and not the record of the other entry.
CorruptionHealsWitness ==
  /\ last.op = "set" /\ "Cache stored" \in last.log
  /\ Cardinality(FileKeysOf(last.namespace)) = 2
  /\ getMetadataPath(last.namespace) \notin corrupt
  /\ DOMAIN metadataDocs[getMetadataPath(last.namespace)]
       = {generateKey(last.namespace, last.identifier)}

\* the calls of set that have written the metadata document, and the one
\* that wrote it last
Saved == {c \in 1..MaxCalls : calls[c].saved > 0}
LastWriter == CHOOSE c \in Saved : \A d \in Saved : calls[d].saved <= calls[c].saved
SharedDocument == metadataDocs[getMetadataPath(SharedNamespace)]
HasSharedEntryFile(c) == getFilePath(calls[c].key, SharedNamespace) \in DOMAIN files

\* C29: when sets of several processes interleave on one namespace of one
\* cache directory, every call past its entry write has its entry file, and
\* the metadata document is the one the last writer wrote: the records it
\* had loaded plus its own record, whatever the other calls saved after that
\* load.
LastWriterWins ==
  /\ \A c \in 1..MaxCalls :
       calls[c].pc \in {"loadMetadata", "saveMetadata", "done"} => HasSharedEntryFile(c)
  /\ Saved # {}
     => /\ DOMAIN SharedDocument = DOMAIN calls[LastWriter].metadata \cup {calls[LastWriter].key}
        /\ SharedDocument[calls[LastWriter].key].timestamp = calls[LastWriter].timestamp
        /\ \A key \in DOMAIN calls[LastWriter].metadata \ {calls[LastWriter].key} :
             SharedDocument[key] = calls[LastWriter].metadata[key]

\* C29 witness: two processes have each completed one set on the namespace
\* with different identifiers; both entry files exist and the metadata
\* document holds the record of the last writer only.
LostUpdate ==
  /\ calls[1].pc = "done" /\ calls[2].pc = "done" /\ calls[3].pc = "idle"
  /\ calls[1].instance # calls[2].instance
  /\ calls[1].identifier # calls[2].identifier
  /\ HasSharedEntryFile(1) /\ HasSharedEntryFile(2)
  /\ DOMAIN SharedDocument = {calls[LastWriter].key}

\* C30: within one process at most one call of set is inside its body at any
\* time, and when all the calls made so far were made in one process, every
\* completed call has its record in the metadata document.
InProcessAtomicity ==
  /\ \A c, d \in 1..MaxCalls :
       (c # d /\ calls[c].instance = calls[d].instance)
       => ~(InBody(calls[c]) /\ InBody(calls[d]))
  /\ \A instance \in Instances :
       (\A c \in 1..MaxCalls : calls[c].pc # "idle" => calls[c].instance = instance)
       => \A c \in 1..MaxCalls :
            calls[c].pc = "done" => calls[c].key \in DOMAIN SharedDocument

\* C30 witness: three calls of set with three different identifiers were made
\* in one process and have completed, and the metadata document holds the
\* three records.
InProcessWitness ==
  /\ \A c \in 1..3 : calls[c].pc = "done" /\ calls[c].instance = calls[1].instance
  /\ {calls[c].identifier : c \in 1..3} = CallIdentifiers
  /\ {calls[c].key : c \in 1..3} \subseteq DOMAIN SharedDocument

====
